---- MODULE Spec2Model ----
(***************************************************************************)
(* Whisper-AT audio classification API (src/app.py).                       *)
(*                                                                         *)
(* Three specifications over one set of variables:                         *)
(*   ClassifySpec  classify_audio applied to a bounded list of tags        *)
(*   PipelineSpec  the body of process_audio_file applied to a bounded     *)
(*                 model output and to a permutation of its segments       *)
(*   Spec/FairSpec the two endpoints /classify and /classify_url, the      *)
(*                 model cache, the temporary directories and the          *)
(*                 background clean-up tasks                               *)
(***************************************************************************)
EXTENDS Naturals, Sequences, FiniteSets

VARIABLES
    \* ClassifySpec
    cpc,            \* "start" | "classified"
    top_tags,       \* the argument of classify_audio
    classification, \* the value classify_audio returned
    \* PipelineSpec
    ppc,            \* "start" | "processed" | "both"
    result,         \* what model.transcribe returned: [text, segments]
    permuted,       \* the same segments in another order
    tag_freq,       \* tag_freq after the loop of lines 112-115
    response,       \* the AudioClassificationResponse for result
    response_perm,  \* the AudioClassificationResponse for the permuted segments
    \* Spec (the endpoints)
    pc,             \* per request slot: where its handler stands
    req,            \* per request slot: endpoint and model_size
    temp_dir,       \* per request slot: the directory mkdtemp returned
    dirs,           \* the temporary directories that exist on disk
    model_cache,    \* the keys of model_cache
    http,           \* per request slot: the HTTP answer of the handler
    background,     \* per request slot: the tasks added to background_tasks
    log             \* per request slot: what the handler did (download status,
                    \* model calls, rmtree calls)

pure_vars == <<cpc, top_tags, classification, ppc, result, permuted, tag_freq,
               response, response_perm>>
api_vars == <<pc, req, temp_dir, dirs, model_cache, http, background, log>>
vars == <<pure_vars, api_vars>>

----------------------------------------------------------------------------
(* Vocabulary tables, lines 14-37 *)

VOCAL_TAGS ==
    {"Singing", "Speech", "Female singing", "Male singing",
     "Child singing", "Vocal music", "Voice",
     "Male speech, man speaking", "Female speech, woman speaking",
     "Child speech, kid speaking", "Conversation", "Narration, monologue",
     "Narration", "Rapping", "Whispering"}

DEFINITIVE_SPEECH_TAGS ==
    {"Male speech, man speaking", "Female speech, woman speaking",
     "Child speech, kid speaking", "Conversation", "Narration, monologue"}

INSTRUMENTAL_TAGS ==
    {"Piano", "Electric piano", "Keyboard (musical)", "Synthesizer", "Organ",
     "Electronic organ", "Harpsichord", "Guitar", "Bass guitar", "Drums", "Violin",
     "Trumpet", "Flute", "Saxophone", "Plucked string instrument", "Electric guitar",
     "Acoustic guitar", "Steel guitar, slide guitar", "Banjo", "Sitar", "Mandolin",
     "Ukulele", "Hammond organ", "Percussion", "Drum kit", "Drum machine", "Drum",
     "Snare drum", "Bass drum", "Timpani", "Tabla", "Cymbal", "Hi-hat", "Tambourine",
     "Marimba, xylophone", "Vibraphone", "Brass instrument", "French horn", "Trombone",
     "Bowed string instrument", "String section", "Violin, fiddle", "Cello", "Double bass",
     "Wind instrument, woodwind instrument", "Clarinet", "Harp", "Harmonica", "Accordion"}

----------------------------------------------------------------------------
(* Bounds and the inputs drawn from them *)

MaxTags == 3        \* longest list handed to classify_audio
MaxSegs == 2        \* most segments in a model output
MaxTagsPerSeg == 2  \* most tags the model reports for one segment

\* One label of each kind: definitive speech (and so vocal), vocal only,
\* instrumental, and in no table.
ClassifyLabels == {"Conversation", "Singing", "Piano", "Dog barking"}
SegmentLabels == {"Conversation", "Piano", "Dog barking"}
Texts == {"", "hello world"}

ListsUpTo(S, n) == UNION {[1..k -> S] : k \in 0..n}

TagLists == ListsUpTo(ClassifyLabels, MaxTags)
SegmentTagLists == ListsUpTo(SegmentLabels, MaxTagsPerSeg)
SegmentSeqs == ListsUpTo(SegmentTagLists, MaxSegs)
ModelResults == [text : Texts, segments : SegmentSeqs]

Range(s) == {s[i] : i \in 1..Len(s)}

PermutationsOf(s) ==
    {[i \in 1..Len(s) |-> s[p[i]]] :
        p \in {q \in [1..Len(s) -> 1..Len(s)] : Range(q) = 1..Len(s)}}

----------------------------------------------------------------------------
(* classify_audio, lines 72-91 *)

\* any(tag in table for tag in tags)
RECURSIVE AnyTagIn(_, _)
AnyTagIn(tags, table) ==
    IF tags = <<>> THEN FALSE
    ELSE Head(tags) \in table \/ AnyTagIn(Tail(tags), table)

classify_audio_no_override(tags) ==
    LET has_vocal == AnyTagIn(tags, VOCAL_TAGS)
        has_instrumental == AnyTagIn(tags, INSTRUMENTAL_TAGS)
    IN  IF has_vocal /\ ~has_instrumental THEN "Vocal Audio"
        ELSE IF has_instrumental /\ ~has_vocal THEN "Instrumental Audio"
        ELSE IF has_vocal /\ has_instrumental THEN "Music"
        ELSE "Unknown"

classify_audio_both_vocal(tags) ==
    LET has_definitive_speech == AnyTagIn(tags, DEFINITIVE_SPEECH_TAGS)
        has_vocal == AnyTagIn(tags, VOCAL_TAGS)
        has_instrumental == AnyTagIn(tags, INSTRUMENTAL_TAGS)
    IN  IF has_definitive_speech THEN "Vocal Audio"
        ELSE IF has_vocal THEN "Vocal Audio"
        ELSE IF has_instrumental THEN "Instrumental Audio"
        ELSE "Unknown"

classify_audio(tags) ==
    LET has_definitive_speech == AnyTagIn(tags, DEFINITIVE_SPEECH_TAGS)
        has_vocal == AnyTagIn(tags, VOCAL_TAGS)
        has_instrumental == AnyTagIn(tags, INSTRUMENTAL_TAGS)
    IN  IF has_definitive_speech THEN "Vocal Audio"
        ELSE IF has_vocal /\ ~has_instrumental THEN "Vocal Audio"
        ELSE IF has_instrumental /\ ~has_vocal THEN "Instrumental Audio"
        ELSE IF has_vocal /\ has_instrumental THEN "Music"
        ELSE "Unknown"

----------------------------------------------------------------------------
(* The aggregation of process_audio_file, lines 109-127.  tag_freq is a    *)
(* dict: a sequence of [tag, freq] entries in insertion order.             *)

HasKey(freq, tag) == \E i \in 1..Len(freq) : freq[i].tag = tag

\* tag_freq[tag] += 1 on a defaultdict(int), line 115
Increment(freq, tag) ==
    IF HasKey(freq, tag)
    THEN [i \in 1..Len(freq) |->
            IF freq[i].tag = tag
            THEN [tag |-> tag, freq |-> freq[i].freq + 1]
            ELSE freq[i]]
    ELSE Append(freq, [tag |-> tag, freq |-> 1])

\* for tag, _ in segment['audio tags'], lines 114-115: the probability of an
\* entry is dropped, so a segment is its sequence of labels.
RECURSIVE CountSegment(_, _)
CountSegment(freq, audio_tags) ==
    IF audio_tags = <<>> THEN freq
    ELSE CountSegment(Increment(freq, Head(audio_tags)), Tail(audio_tags))

\* for segment in audio_tag_result, lines 112-115
RECURSIVE CountSegments(_, _)
CountSegments(freq, audio_tag_result) ==
    IF audio_tag_result = <<>> THEN freq
    ELSE CountSegments(CountSegment(freq, Head(audio_tag_result)),
                       Tail(audio_tag_result))

\* tag_freq = defaultdict(int) moved into the loop: only the last segment counts
TagFreqResetPerSegment(audio_tag_result) ==
    IF audio_tag_result = <<>> THEN <<>>
    ELSE CountSegment(<<>>, audio_tag_result[Len(audio_tag_result)])

\* lines 110-115
TagFreq(audio_tag_result) == CountSegments(<<>>, audio_tag_result)

\* [tag for tag, freq in tag_freq.items() if freq > 1], line 118
RECURSIVE TopTags(_)
TopTags(freq) ==
    IF freq = <<>> THEN <<>>
    ELSE IF Head(freq).freq > 1
         THEN <<Head(freq).tag>> \o TopTags(Tail(freq))
         ELSE TopTags(Tail(freq))

RECURSIVE Keys(_)
Keys(freq) ==
    IF freq = <<>> THEN <<>> ELSE <<Head(freq).tag>> \o Keys(Tail(freq))

\* classification taken from every counted tag instead of from top_tags
process_audio_file_all_tags(model_result) ==
    LET freq == TagFreq(model_result.segments)
    IN  [transcription |-> model_result.text,
         top_tags |-> TopTags(freq),
         classification |-> classify_audio(Keys(freq))]

\* lines 99-127, given what model.transcribe returned
process_audio_file(model_result) ==
    LET freq == TagFreq(model_result.segments)
        tags == TopTags(freq)
    IN  [transcription |-> model_result.text,
         top_tags |-> tags,
         classification |-> classify_audio(tags)]

NoResponse == [transcription |-> "", top_tags |-> <<>>, classification |-> ""]

----------------------------------------------------------------------------
(* The endpoints: requests, temporary directories, model cache *)

\* Request slots: the requests in flight at once.  A slot that finished serves
\* the next request, so one slot is every sequence of requests served one
\* after another, and two slots interleave the steps of two handlers.
MaxReq == 1

Requests == 1..MaxReq
DirNames == 1..MaxReq       \* the names mkdtemp can return
NoDir == 0                  \* temp_dir before mkdtemp has run

\* lines 142 and 192
AllowedSizesWide == {"tiny", "base", "small", "large"}
AllowedSizes == {"tiny", "base", "small"}

InputSizes == {"tiny", "base", "small", "large", ""}

NoRequest == [endpoint |-> "", model_size |-> ""]
NoHttp == [status_code |-> 0, detail |-> <<>>, ids |-> <<>>, body |-> NoResponse]
NoLog == [download_status |-> 0, transcribe_calls |-> 0, rmtrees |-> 0]

ApiInit ==
    /\ pc = [r \in Requests |-> "idle"]
    /\ req = [r \in Requests |-> NoRequest]
    /\ temp_dir = [r \in Requests |-> NoDir]
    /\ dirs = {}
    /\ model_cache = {}
    /\ http = [r \in Requests |-> NoHttp]
    /\ background = [r \in Requests |-> <<>>]
    /\ log = [r \in Requests |-> NoLog]

PureInit ==
    /\ cpc = "start"
    /\ top_tags = <<>>
    /\ classification = ""
    /\ ppc = "start"
    /\ result = [text |-> "", segments |-> <<>>]
    /\ permuted = <<>>
    /\ tag_freq = <<>>
    /\ response = NoResponse
    /\ response_perm = NoResponse

----------------------------------------------------------------------------
(* ClassifySpec: classify_audio on every list of at most MaxTags labels *)

ClassifyInit ==
    /\ cpc = "start"
    /\ top_tags \in TagLists
    /\ classification = ""
    /\ ppc = "start"
    /\ result = [text |-> "", segments |-> <<>>]
    /\ permuted = <<>>
    /\ tag_freq = <<>>
    /\ response = NoResponse
    /\ response_perm = NoResponse
    /\ ApiInit

Classify ==
    /\ cpc = "start"
    /\ classification' = classify_audio(top_tags)
    /\ cpc' = "classified"
    /\ UNCHANGED <<top_tags, ppc, result, permuted, tag_freq, response,
                   response_perm, api_vars>>

ClassifyNext == Classify

ClassifySpec == ClassifyInit /\ [][ClassifyNext]_vars

----------------------------------------------------------------------------
(* PipelineSpec: lines 99-127 on every model output within the bounds, and *)
(* on every reordering of its segments                                     *)

PipelineInit ==
    /\ cpc = "start"
    /\ top_tags = <<>>
    /\ classification = ""
    /\ ppc = "start"
    /\ result \in ModelResults
    /\ permuted \in PermutationsOf(result.segments)
    /\ tag_freq = <<>>
    /\ response = NoResponse
    /\ response_perm = NoResponse
    /\ ApiInit

Process ==
    /\ ppc = "start"
    /\ tag_freq' = TagFreq(result.segments)
    /\ response' = process_audio_file(result)
    /\ ppc' = "processed"
    /\ UNCHANGED <<cpc, top_tags, classification, result, permuted,
                   response_perm, api_vars>>

ProcessPermuted ==
    /\ ppc = "processed"
    /\ response_perm' =
           process_audio_file([text |-> result.text, segments |-> permuted])
    /\ ppc' = "both"
    /\ UNCHANGED <<cpc, top_tags, classification, result, permuted, tag_freq,
                   response, api_vars>>

PipelineNext == Process \/ ProcessPermuted

PipelineSpec == PipelineInit /\ [][PipelineNext]_vars

----------------------------------------------------------------------------
(* Spec: the endpoints /classify (lines 129-168) and /classify_url (lines  *)
(* 178-225).  A handler is cut where it waits on something outside the     *)
(* process (upload, download, the model), so requests interleave there.    *)

\* Model outputs the endpoints see
SampleResults ==
    {[text |-> "", segments |-> <<>>],
     [text |-> "hello world",
      segments |-> <<<<"Piano">>, <<"Piano", "Dog barking">>>>],
     [text |-> "hello world",
      segments |-> <<<<"Conversation", "Piano">>, <<"Piano", "Conversation">>>>]}

DownloadStatuses == {200, 404}

HTTPException(status_code, detail) ==
    [status_code |-> status_code, detail |-> detail, ids |-> <<>>,
     body |-> NoResponse]

\* shutil.rmtree(d)
Rmtree(d) == dirs \ {d}

\* the handler raises without removing the directory
ExceptHandlerNoCleanup(r, e, lg) ==
    /\ UNCHANGED dirs
    /\ log' = [log EXCEPT ![r] = lg]
    /\ http' = [http EXCEPT ![r] =
                   HTTPException(500, <<"Error processing audio: ", e>>)]
    /\ pc' = [pc EXCEPT ![r] = "raised"]
    /\ UNCHANGED background

\* except Exception as e, lines 165-168 and 223-225; e stands for str(e), lg
\* is the log of the request up to the raise
ExceptHandler(r, e, lg) ==
    /\ dirs' = Rmtree(temp_dir[r])
    /\ log' = [log EXCEPT ![r] = [lg EXCEPT !.rmtrees = @ + 1]]
    /\ http' = [http EXCEPT ![r] =
                   HTTPException(500, <<"Error processing audio: ", e>>)]
    /\ pc' = [pc EXCEPT ![r] = "raised"]
    /\ UNCHANGED background

\* the handler returns without scheduling the clean-up
ReturnResultNoTask(r, res, lg) ==
    /\ UNCHANGED background
    /\ http' = [http EXCEPT ![r] =
                   [status_code |-> 200, detail |-> <<>>,
                    ids |-> IF req[r].endpoint = "/classify_url"
                            THEN <<"user_id", "project_id", "audio_id">>
                            ELSE <<>>,
                    body |-> res]]
    /\ pc' = [pc EXCEPT ![r] = "returned"]
    /\ log' = [log EXCEPT ![r] = lg]
    /\ UNCHANGED dirs

\* background_tasks.add_task(shutil.rmtree, temp_dir) and return, lines
\* 161-163 and 212-221
ReturnResult(r, res, lg) ==
    /\ background' = [background EXCEPT ![r] = Append(@, temp_dir[r])]
    /\ http' = [http EXCEPT ![r] =
                   [status_code |-> 200, detail |-> <<>>,
                    ids |-> IF req[r].endpoint = "/classify_url"
                            THEN <<"user_id", "project_id", "audio_id">>
                            ELSE <<>>,
                    body |-> res]]
    /\ pc' = [pc EXCEPT ![r] = "returned"]
    /\ log' = [log EXCEPT ![r] = lg]
    /\ UNCHANGED dirs

\* tempfile.mkdtemp(), lines 149 and 196: a name no existing directory has
Mkdtemp(r, d) ==
    /\ d \in DirNames \ dirs
    /\ temp_dir' = [temp_dir EXCEPT ![r] = d]
    /\ dirs' = dirs \cup {d}

\* /classify, lines 130-150: validation, then the temporary directory
ClassifyRequest(r) ==
    /\ pc[r] = "idle"
    /\ \E size \in InputSizes :
        /\ req' = [req EXCEPT ![r] =
                      [endpoint |-> "/classify", model_size |-> size]]
        /\ IF size \notin AllowedSizes
           THEN /\ http' = [http EXCEPT ![r] = HTTPException(400,
                       <<"Invalid model size. Choose from: tiny, base, small">>)]
                /\ pc' = [pc EXCEPT ![r] = "raised"]
                /\ UNCHANGED <<temp_dir, dirs>>
           ELSE /\ \E d \in DirNames : Mkdtemp(r, d)
                /\ pc' = [pc EXCEPT ![r] = "saving"]
                /\ UNCHANGED http
    /\ UNCHANGED <<model_cache, background, log, pure_vars>>

\* /classify, lines 152-155: the upload is written into the directory
ClassifySave(r) ==
    /\ pc[r] = "saving"
    /\ \/ /\ pc' = [pc EXCEPT ![r] = "processing"]
          /\ UNCHANGED <<dirs, http, background, log>>
       \/ ExceptHandler(r, "OSError", log[r])
    /\ UNCHANGED <<req, temp_dir, model_cache, pure_vars>>

\* /classify_url, lines 179-197
UrlRequest(r) ==
    /\ pc[r] = "idle"
    /\ \E size \in InputSizes :
        /\ req' = [req EXCEPT ![r] =
                      [endpoint |-> "/classify_url", model_size |-> size]]
        /\ IF size \notin AllowedSizes
           THEN /\ http' = [http EXCEPT ![r] =
                               HTTPException(400, <<"Invalid model size.">>)]
                /\ pc' = [pc EXCEPT ![r] = "raised"]
                /\ UNCHANGED <<temp_dir, dirs>>
           ELSE /\ \E d \in DirNames : Mkdtemp(r, d)
                /\ pc' = [pc EXCEPT ![r] = "downloading"]
                /\ UNCHANGED http
    /\ UNCHANGED <<model_cache, background, log, pure_vars>>

\* /classify_url, lines 199-206: the download answers with a status, or the
\* connection or the write fails
UrlDownload(r) ==
    /\ pc[r] = "downloading"
    /\ \/ \E status \in DownloadStatuses :
            LET lg == [log[r] EXCEPT !.download_status = status]
            IN  IF status # 200
                THEN ExceptHandler(r,
                         "HTTPException(400, Failed to download audio.)", lg)
                ELSE \/ /\ pc' = [pc EXCEPT ![r] = "processing"]
                        /\ log' = [log EXCEPT ![r] = lg]
                        /\ UNCHANGED <<dirs, http, background>>
                     \/ ExceptHandler(r, "OSError", lg)
       \/ ExceptHandler(r, "ClientError", log[r])
    /\ UNCHANGED <<req, temp_dir, model_cache, pure_vars>>

\* get_model, lines 63-70: the keys of model_cache once the model is returned
get_model(model_size) == model_cache \cup {model_size}

\* process_audio_file, lines 95-99: get_model, then model.transcribe starts
StartProcess(r) ==
    /\ pc[r] = "processing"
    /\ \/ /\ model_cache' = get_model(req[r].model_size)
          /\ pc' = [pc EXCEPT ![r] = "transcribing"]
          /\ log' = [log EXCEPT ![r].transcribe_calls = @ + 1]
          /\ UNCHANGED <<dirs, http, background>>
       \/ /\ req[r].model_size \notin model_cache   \* whisper.load_model raises
          /\ UNCHANGED model_cache
          /\ ExceptHandler(r, "load_model error", log[r])
    /\ UNCHANGED <<req, temp_dir, pure_vars>>

\* process_audio_file, lines 99-127, and the return of the handler: the model
\* answers or raises
FinishProcess(r) ==
    /\ pc[r] = "transcribing"
    /\ \/ \E out \in SampleResults :
            ReturnResult(r, process_audio_file(out), log[r])
       \/ ExceptHandler(r, "transcribe error", log[r])
    /\ UNCHANGED <<req, temp_dir, model_cache, pure_vars>>

\* the response of a handler that returned is sent
Respond(r) ==
    /\ pc[r] = "returned"
    /\ pc' = [pc EXCEPT ![r] = "sent"]
    /\ UNCHANGED <<req, temp_dir, dirs, model_cache, http, background, log,
                   pure_vars>>

\* the background tasks of the response run once it is sent
RunBackground(r) ==
    /\ pc[r] = "sent"
    /\ dirs' = dirs \ Range(background[r])
    /\ log' = [log EXCEPT ![r].rmtrees = @ + Len(background[r])]
    /\ background' = [background EXCEPT ![r] = <<>>]
    /\ pc' = [pc EXCEPT ![r] = "done"]
    /\ UNCHANGED <<req, temp_dir, model_cache, http, pure_vars>>

\* the request is over; its slot serves the next one
Complete(r) ==
    /\ pc[r] \in {"raised", "done"}
    /\ pc' = [pc EXCEPT ![r] = "idle"]
    /\ req' = [req EXCEPT ![r] = NoRequest]
    /\ temp_dir' = [temp_dir EXCEPT ![r] = NoDir]
    /\ http' = [http EXCEPT ![r] = NoHttp]
    /\ log' = [log EXCEPT ![r] = NoLog]
    /\ UNCHANGED <<dirs, model_cache, background, pure_vars>>

Progress(r) ==
    \/ ClassifySave(r)
    \/ UrlDownload(r)
    \/ StartProcess(r)
    \/ FinishProcess(r)
    \/ Respond(r)
    \/ RunBackground(r)

Init == PureInit /\ ApiInit

Next ==
    \E r \in Requests :
        \/ ClassifyRequest(r)
        \/ ClassifySave(r)
        \/ UrlRequest(r)
        \/ UrlDownload(r)
        \/ StartProcess(r)
        \/ FinishProcess(r)
        \/ Respond(r)
        \/ RunBackground(r)
        \/ Complete(r)

Spec == Init /\ [][Next]_vars

\* a handler that started runs on, a response is sent and its background
\* tasks run
FairSpec == Spec /\ \A r \in Requests : WF_vars(Progress(r))

----------------------------------------------------------------------------
(* Claims about classify_audio (ClassifySpec) *)

Labels == {"Vocal Audio", "Instrumental Audio", "Music", "Unknown"}

HasDefinitive(tags) == Range(tags) \cap DEFINITIVE_SPEECH_TAGS # {}
HasVocal(tags) == Range(tags) \cap VOCAL_TAGS # {}
HasInstrumental(tags) == Range(tags) \cap INSTRUMENTAL_TAGS # {}

\* C1: whenever at least one of the tags handed to classify_audio is a
\* definitive-speech tag, the result is "Vocal Audio", however many of the
\* tags are instrumental.
C1_DefinitiveSpeechOverrides ==
    (cpc = "classified" /\ HasDefinitive(top_tags))
        => classification = "Vocal Audio"

\* A definitive-speech tag together with an instrumental tag was classified.
C1_Witness ==
    /\ cpc = "classified"
    /\ HasDefinitive(top_tags)
    /\ HasInstrumental(top_tags)
    /\ classification = "Vocal Audio"

\* C2: classify_audio returns one of the four labels for every list of tags,
\* and without a definitive-speech tag the label is the one the pair
\* (hasVocal, hasInstrumental) selects: vocal only -> Vocal Audio,
\* instrumental only -> Instrumental Audio, both -> Music, neither -> Unknown.
C2_FourLabelsByTable ==
    cpc = "classified" =>
        /\ classification \in Labels
        /\ ~HasDefinitive(top_tags) =>
            /\ (HasVocal(top_tags) /\ ~HasInstrumental(top_tags))
                   => classification = "Vocal Audio"
            /\ (HasInstrumental(top_tags) /\ ~HasVocal(top_tags))
                   => classification = "Instrumental Audio"
            /\ (HasVocal(top_tags) /\ HasInstrumental(top_tags))
                   => classification = "Music"
            /\ (~HasVocal(top_tags) /\ ~HasInstrumental(top_tags))
                   => classification = "Unknown"

\* A vocal tag that is not definitive, an instrumental tag and a label of no
\* table were classified together as Music.
C2_Witness ==
    /\ cpc = "classified"
    /\ ~HasDefinitive(top_tags)
    /\ HasVocal(top_tags)
    /\ HasInstrumental(top_tags)
    /\ "Dog barking" \in Range(top_tags)
    /\ classification = "Music"

----------------------------------------------------------------------------
(* Claims about the aggregation (PipelineSpec) *)

\* the number of segments whose tag list holds the label
SegmentsWith(tag, segments) ==
    Cardinality({i \in 1..Len(segments) : tag \in Range(segments[i])})

\* the number of entries, over all segments, that carry the label
Occurrences(tag, segments) ==
    Cardinality({ij \in (1..Len(segments)) \X (1..MaxTagsPerSeg) :
                    /\ ij[2] <= Len(segments[ij[1]])
                    /\ segments[ij[1]][ij[2]] = tag})

FreqOf(freq, tag) ==
    IF HasKey(freq, tag)
    THEN (CHOOSE e \in Range(freq) : e.tag = tag).freq
    ELSE 0

NoDuplicates(s) == Cardinality(Range(s)) = Len(s)

\* C3: a label that appears in exactly one segment is never in top_tags, and
\* a label that appears in exactly two distinct segments always is.
C3_OneSegmentNeverTwoAlways ==
    ppc # "start" =>
        \A tag \in SegmentLabels :
            /\ SegmentsWith(tag, result.segments) = 1
                   => tag \notin Range(response.top_tags)
            /\ SegmentsWith(tag, result.segments) = 2
                   => tag \in Range(response.top_tags)

\* C4: the count kept for a label is the number of segments in which the label
\* appears: a label listed twice in one segment counts once for that segment.
C4_CountedOncePerSegment ==
    ppc # "start" =>
        \A tag \in SegmentLabels :
            FreqOf(tag_freq, tag) = SegmentsWith(tag, result.segments)

\* C5: the set of labels in top_tags is the same for every reordering of the
\* segments.
C5_OrderIndependent ==
    ppc = "both" => Range(response.top_tags) = Range(response_perm.top_tags)

\* The segments were processed in two different orders and some label is
\* salient.
C5_Witness ==
    /\ ppc = "both"
    /\ permuted # result.segments
    /\ response.top_tags # <<>>
    /\ Range(response.top_tags) # UNION {Range(seg) : seg \in Range(result.segments)}

----------------------------------------------------------------------------
(* Claims about the endpoints (Spec, FairSpec) *)

\* a handler that holds a temporary directory and has not failed
Live == {"saving", "downloading", "processing", "transcribing", "returned", "sent"}

\* C7: when a step after mkdtemp fails, the directory of the request has been
\* removed by the time its error is raised: a request whose handler raised has
\* called rmtree on its directory, and every directory on disk belongs to a
\* request that has not failed.
C7_FailureRemovesTempDir ==
    /\ \A r \in Requests :
          (pc[r] = "raised" /\ temp_dir[r] # NoDir) => log[r].rmtrees = 1
    /\ \A d \in dirs : \E r \in Requests : temp_dir[r] = d /\ pc[r] \in Live

\* A /classify_url request failed in the model call and its directory is gone.
C7_Witness ==
    \E r \in Requests :
        /\ pc[r] = "raised"
        /\ req[r].endpoint = "/classify_url"
        /\ log[r].transcribe_calls = 1
        /\ temp_dir[r] # NoDir
        /\ temp_dir[r] \notin dirs
        /\ http[r].status_code = 500

\* C8: when the download of /classify_url answers with a status other than
\* 200, the endpoint responds with HTTP 400 and the detail "Failed to download
\* audio.", and the model is not invoked for the request.
C8_DownloadFailureIs400 ==
    \A r \in Requests :
        (/\ pc[r] = "raised"
         /\ req[r].endpoint = "/classify_url"
         /\ log[r].download_status \notin {0, 200})
            => /\ http[r].status_code = 400
               /\ http[r].detail = <<"Failed to download audio.">>
               /\ log[r].transcribe_calls = 0

\* C9: a request whose model_size is not tiny, base or small is rejected with
\* HTTP 400 in the step that receives it, and that step creates no directory
\* and leaves dirs and model_cache as they were; the keys of model_cache are
\* always among tiny, base and small.
C9_InvalidSizeTouchesNothing ==
    /\ [](model_cache \subseteq {"tiny", "base", "small"})
    /\ [][\A r \in Requests :
            (/\ pc[r] = "idle"
             /\ pc'[r] # "idle"
             /\ req'[r].model_size \notin {"tiny", "base", "small"})
                => /\ pc'[r] = "raised"
                   /\ http'[r].status_code = 400
                   /\ temp_dir'[r] = NoDir
                   /\ log'[r] = NoLog
                   /\ background' = background
                   /\ dirs' = dirs
                   /\ model_cache' = model_cache]_vars

\* A request for the size "large" was rejected while a model was cached.
C9_Witness ==
    \E r \in Requests :
        /\ pc[r] = "raised"
        /\ req[r].model_size = "large"
        /\ http[r].status_code = 400
        /\ model_cache # {}

C10_ExactlyOnce ==
    \A r \in Requests :
        /\ pc[r] \in {"saving", "downloading", "processing", "transcribing"}
              => /\ temp_dir[r] \in dirs
                 /\ log[r].rmtrees = 0
                 /\ background[r] = <<>>
        /\ pc[r] \in {"returned", "sent"}
              => /\ temp_dir[r] \in dirs
                 /\ log[r].rmtrees = 0
                 /\ background[r] = <<temp_dir[r]>>
                 /\ log[r].transcribe_calls = 1
                 /\ http[r].status_code = 200
        /\ (pc[r] = "raised" /\ temp_dir[r] # NoDir)
              => /\ log[r].rmtrees = 1
                 /\ background[r] = <<>>
        /\ pc[r] = "done"
              => /\ log[r].rmtrees = 1
                 /\ background[r] = <<>>

\* C10: a request that passed validation has its directory removed exactly
\* once: the directory exists, with no rmtree called, until the handler ends;
\* on success the removal is scheduled only after the model call returned and
\* the handler does not remove it; on failure the handler removes it and
\* schedules nothing; and every such request eventually reaches the failed or
\* the cleaned-up state.
C10_TempDirRemovedExactlyOnce ==
    /\ []C10_ExactlyOnce
    /\ \A r \in Requests : (pc[r] \in Live) ~> (pc[r] \in {"raised", "done"})

\* The background task of a successful request has run and removed its
\* directory.
C10_Witness ==
    \E r \in Requests :
        /\ pc[r] = "done"
        /\ http[r].status_code = 200
        /\ log[r].rmtrees = 1
        /\ temp_dir[r] \notin dirs

====
